---- MODULE Spec2Model ----
(***************************************************************************)
(* Model of src/decision.py: the three-stage analysis workflow             *)
(* (news_analysis -> price_analysis -> final_decision), the trade gate     *)
(* execute_trading_decision, and the scheduler run_continuous_analysis.    *)
(*                                                                         *)
(* External collaborators (language model, news collector, market          *)
(* collector, exchange, database) are inputs drawn from small sets.  The   *)
(* database save_* operations append and return; every other collaborator  *)
(* call may also raise.  A KeyboardInterrupt is delivered between steps.   *)
(* The wall clock is read by datetime.now(); it advances in time.sleep, and *)
(* a run's own duration is short against the sleep and left out.           *)
(***************************************************************************)
EXTENDS Integers, Sequences, FiniteSets, TLC

(* ------------------------------ bounds --------------------------------- *)
\* number of scheduler cycles explored
MaxCycles == 2

(* ------------------------- program constants --------------------------- *)
\* line 424
WAIT_MINUTES == 20
\* line 425
WAIT_SECONDS == WAIT_MINUTES * 60
\* line 310: "if available_krw < 10000"
MIN_KRW == 10000
\* line 22: INVESTMENT = float(os.getenv('INVESTMENT'))
INVESTMENT == 100000
\* datetime.now() has sub-second resolution; strftime('%Y%m%d%H%M%S') keeps seconds
TicksPerSecond == 2

(* --------------------------- decision text ----------------------------- *)
\* The gate reads the model's prose only through "keyword in text", so a text
\* is the set of words that occur in it.  "gwanmang" is the hold keyword,
\* "maesu" the buy keyword; "SELL" stands for any other prose (the sell word,
\* Latin text), which lower() may change and which matches no keyword.
HoldKeyword == "gwanmang"
BuyKeyword == "maesu"
Words == {HoldKeyword, BuyKeyword, "SELL"}
DecisionTexts == SUBSET Words

\* str.lower(): Hangul has no case, Latin letters are lowered (line 283)
LowerWord(w) == IF w = "SELL" THEN "sell" ELSE w
Lower(text) == {LowerWord(w) : w \in text}

\* "kw in text" (lines 286, 302)
Contains(text, kw) == kw \in text

(* ----------------------------- workflow -------------------------------- *)
\* create_trading_workflow, lines 366-376
Nodes == {"news_analysis", "price_analysis", "final_decision"}
Edges == {<<"news_analysis", "price_analysis">>, <<"price_analysis", "final_decision">>}
\* mutant: the workflow is entered at the price stage
EntryPointAtPrice == "price_analysis"
EntryPoint == "news_analysis"
FinishPoint == "final_decision"
NextNode(n) == IF n = FinishPoint THEN "END" ELSE CHOOSE m \in Nodes : <<n, m>> \in Edges

(* ------------------------ collaborator outcomes ------------------------ *)
\* llm.invoke(prompt): raises, or returns a response with its content
ModelOutcomes(contents, none) ==
    {[tag |-> "raise", content |-> none]} \cup {[tag |-> "ok", content |-> c] : c \in contents}
NewsAnalyses == {"news_view"}
PriceAnalyses == {"price_view"}
\* db_manager.get_recent_news_limit(): an empty frame or rows
NewsReadbacks == {"empty", "rows"}
\* NaverNewsCollector calls inside collect_latest_news
CollectOutcomes == {"ok", "raise"}
\* closing prices the market provider reports
Prices == {100, 101}
\* trader.analyzer.data_queue.empty()
QueueStates == {"empty", "ready"}
\* trade_executor.get_balance()
BalanceOutcomes ==
    {[tag |-> "raise", krw |-> 0], [tag |-> "nokey", krw |-> 0]}
    \cup {[tag |-> "ok", krw |-> v] : v \in {0, MIN_KRW - 1, MIN_KRW, MIN_KRW + 1}}
\* trade_executor.execute_trade(...): raises or returns a result
ExchangeOrderIds == {<<"EX", 1>>}
ExecResults(price) ==
    {[tag |-> "result", status |-> st, type |-> ty, quantity |-> 1, price |-> price,
      total_amount |-> price, order_id |-> oid] :
        st \in {"SUCCESS", "FAILED"}, ty \in {"BUY", "SELL"}, oid \in ExchangeOrderIds}
ExecRaise == [tag |-> "raise"]
ExecOutcomes(price) == {ExecRaise} \cup ExecResults(price)

(* ------------------------------- state --------------------------------- *)
VARIABLES
    schedPc,      \* scheduler position: "loop", "pipeline", "sleep", "sleep_retry", "exited", "killed"
    cycle,        \* number of cycles started
    now,          \* wall clock, in ticks (TicksPerSecond to the second)
    pc,           \* node of the workflow about to run, "END", or "idle"
    results,      \* state['results'] of the current run
    market_data,  \* state['market_data'] of the current run
    prompts,      \* llm.invoke calls of the current run: what each prompt embeds, and
                  \* whether the call answered ("ok") or raised
    fetches,      \* market provider invocations of the current run
    newsReads,    \* get_recent_news invocations of the current run
    journal,      \* save_news_analysis / save_price_analysis / save_final_decision calls of the run
    trades,       \* every save_trade_execution record, over all cycles
    gate          \* what execute_trading_decision did in the current run

vars == <<schedPc, cycle, now, pc, results, market_data, prompts, fetches,
          newsReads, journal, trades, gate>>

EmptyDict == [tag |-> "dict"]
NoneValue == [tag |-> "None"]
Snapshot(price, source, n) ==
    [tag |-> "snapshot", closing_price |-> price, source |-> source, fetch |-> n]

NoResults == [k \in {} |-> 0]
Has(d, k) == k \in DOMAIN d
\* mutant: the stage rebinds state['results'] to a new dict holding its own key
PutFresh(d, k, v) == (k :> v)

\* d[k] = v
Put(d, k, v) == (k :> v) @@ d

GateIdle ==
    [entered |-> 0, balance |-> <<>>, executes |-> <<>>, outcomes |-> <<>>,
     saves |-> <<>>, error |-> "none"]

\* config of run_trading_analysis, lines 385-390
Init ==
    /\ schedPc = "loop"
    /\ cycle = 0
    /\ now = 0
    /\ pc = "idle"
    /\ results = NoResults
    /\ market_data = EmptyDict
    /\ prompts = <<>>
    /\ fetches = <<>>
    /\ newsReads = <<>>
    /\ journal = <<>>
    /\ trades = <<>>
    /\ gate = GateIdle


(* ------------------------------ helpers -------------------------------- *)
\* mutant: the id is built from the date alone, strftime('%Y%m%d')
StrfDate(ts) == ts \div (86400 * TicksPerSecond)

\* timestamp.strftime('%Y%m%d%H%M%S'), lines 290 and 314
StrfSeconds(ts) == ts \div TicksPerSecond

\* mutant: an empty frame is serialised like any other, without the
\* 'no recent news' text
get_recent_news_dumped(rows) == "news_json"

\* get_recent_news, lines 91-103: the text handed to the news prompt
get_recent_news(rows) == IF rows = "empty" THEN "no_recent_news" ELSE "news_json"

\* mutant: the collector's exception leaves collect_latest_news
collect_latest_news_unguarded(collect) == collect

\* collect_latest_news, lines 45-61: the whole body is in try/except Exception,
\* so a collector failure is printed and the call returns normally
collect_latest_news(collect) == IF collect = "raise" THEN "done" ELSE "done"

MarketOutcomes ==
    {[tag |-> "raise", price |-> 0]} \cup {[tag |-> "ok", price |-> p] : p \in Prices}

\* mutant: a populated state['market_data'] is reused instead of refetched
get_market_data_cached(md, q, out, n) ==
    LET source == IF q = "ready" THEN "queue" ELSE "collect"
    IN IF md.tag = "snapshot"
       THEN [calls |-> <<>>, value |-> md]
       ELSE [calls |-> <<source>>,
             value |-> IF out.tag = "raise" THEN NoneValue
                       ELSE Snapshot(out.price, source, n + 1)]

\* get_market_data_once, lines 63-78: the provider is asked on every call;
\* the queue is read when it holds a pre-fetched snapshot, else collect_market_data
\* runs; a failure stores None.  md is state['market_data'] before the call and
\* n the number of provider invocations made so far in the run.
get_market_data_once(md, q, out, n) ==
    LET source == IF q = "ready" THEN "queue" ELSE "collect"
    IN [calls |-> <<source>>,
        value |-> IF out.tag = "raise" THEN NoneValue
                  ELSE Snapshot(out.price, source, n + 1)]

\* mutant: the exception is swallowed and the code after app.invoke runs
StageRaisesSwallowed ==
    /\ pc' = "END"
    /\ UNCHANGED schedPc

\* lines 418-420 and 453-456: an exception leaving the workflow is re-raised by
\* run_trading_analysis and caught by the scheduler, which sleeps and retries
StageRaises ==
    /\ pc' = "idle"
    /\ schedPc' = "sleep_retry"

(* ------------------------------ scheduler ------------------------------ *)
\* lines 431-440 and 383-397: a cycle starts with a fresh context
StartCycle ==
    /\ schedPc = "loop"
    /\ cycle < MaxCycles
    /\ cycle' = cycle + 1
    /\ schedPc' = "pipeline"
    /\ pc' = EntryPoint
    /\ results' = NoResults
    /\ market_data' = EmptyDict
    /\ prompts' = <<>>
    /\ fetches' = <<>>
    /\ newsReads' = <<>>
    /\ journal' = <<>>
    /\ gate' = GateIdle
    /\ UNCHANGED <<now, trades>>

\* line 448: time.sleep(WAIT_SECONDS) after a run that returned
SleepDone ==
    /\ schedPc = "sleep"
    /\ schedPc' = "loop"
    /\ now' = now + WAIT_SECONDS * TicksPerSecond
    /\ UNCHANGED <<cycle, pc, results, market_data, prompts, fetches, newsReads,
                   journal, trades, gate>>

\* mutant: the retry sleep backs off to twice the interval
RetrySleepBackoff ==
    /\ schedPc = "sleep_retry"
    /\ schedPc' = "loop"
    /\ now' = now + 2 * WAIT_SECONDS * TicksPerSecond
    /\ UNCHANGED <<cycle, pc, results, market_data, prompts, fetches, newsReads,
                   journal, trades, gate>>

\* line 456: time.sleep(WAIT_SECONDS) in the except Exception branch
RetrySleepDone ==
    /\ schedPc = "sleep_retry"
    /\ schedPc' = "loop"
    /\ now' = now + WAIT_SECONDS * TicksPerSecond
    /\ UNCHANGED <<cycle, pc, results, market_data, prompts, fetches, newsReads,
                   journal, trades, gate>>

\* lines 450-452: a KeyboardInterrupt raised inside the try body ends the loop
KeyboardInterrupt ==
    /\ schedPc \in {"loop", "pipeline", "sleep"}
    /\ schedPc' = "exited"
    /\ pc' = "idle"
    /\ UNCHANGED <<cycle, now, results, market_data, prompts, fetches, newsReads,
                   journal, trades, gate>>

\* line 456 is outside the try body: a KeyboardInterrupt raised there leaves
\* run_continuous_analysis uncaught
KeyboardInterruptInRetry ==
    /\ schedPc = "sleep_retry"
    /\ schedPc' = "killed"
    /\ UNCHANGED <<cycle, now, pc, results, market_data, prompts, fetches, newsReads,
                   journal, trades, gate>>

(* ------------------------------- stages -------------------------------- *)
\* news_analysis_agent, lines 105-151
news_analysis_agent ==
    /\ schedPc = "pipeline"
    /\ pc = "news_analysis"
    /\ \E collect \in CollectOutcomes, rows \in NewsReadbacks,
          response \in ModelOutcomes(NewsAnalyses, "") :
         LET news_data == get_recent_news(rows)
             timestamp == now
             resp == response.content
         IN /\ newsReads' = Append(newsReads, [collect |-> collect, rows |-> rows])
            /\ IF collect_latest_news(collect) = "raise"
               THEN \* line 89: an exception leaving the collector leaves the stage
                    /\ StageRaises
                    /\ UNCHANGED <<results, journal, prompts>>
               ELSE /\ prompts' = Append(prompts, [node |-> "news_analysis",
                                                   data |-> news_data,
                                                   answer |-> response.tag])
                    /\ IF response.tag = "raise"
                       THEN /\ StageRaises
                            /\ UNCHANGED <<results, journal>>
                       ELSE /\ results' = Put(results, "news_analysis",
                                              [analysis |-> resp, timestamp |-> timestamp])
                            /\ journal' = Append(journal, [save |-> "news_analysis",
                                                           timestamp |-> timestamp,
                                                           analysis_text |-> resp])
                            /\ pc' = NextNode("news_analysis")
                            /\ UNCHANGED schedPc
    /\ UNCHANGED <<cycle, now, market_data, fetches, trades, gate>>

\* price_analysis_agent, lines 153-213
price_analysis_agent ==
    /\ schedPc = "pipeline"
    /\ pc = "price_analysis"
    /\ \E q \in QueueStates, out \in MarketOutcomes,
          response \in ModelOutcomes(PriceAnalyses, "") :
         LET got == get_market_data_once(market_data, q, out, Len(fetches))
             timestamp == now
             resp == response.content
         IN /\ fetches' = fetches \o got.calls
            /\ market_data' = got.value
            /\ IF got.value.tag # "snapshot"
               THEN \* line 172: subscripting None raises before the model is called
                    /\ StageRaises
                    /\ UNCHANGED <<results, journal, prompts>>
               ELSE /\ prompts' = Append(prompts, [node |-> "price_analysis",
                                                   data |-> got.value.closing_price,
                                                   answer |-> response.tag])
                    /\ IF response.tag = "raise"
                       THEN /\ StageRaises
                            /\ UNCHANGED <<results, journal>>
                       ELSE /\ results' = Put(results, "price_analysis",
                                              [analysis |-> resp, timestamp |-> timestamp])
                            /\ journal' = Append(journal, [save |-> "price_analysis",
                                                           timestamp |-> timestamp,
                                                           current_price |-> got.value.closing_price,
                                                           analysis_text |-> resp])
                            /\ pc' = NextNode("price_analysis")
                            /\ UNCHANGED schedPc
    /\ UNCHANGED <<cycle, now, newsReads, trades, gate>>

\* mutant: the prior analyses are read with a default (results.get) instead of
\* a subscript, so reconciliation runs without them
final_decision_agent_unchecked ==
    /\ schedPc = "pipeline"
    /\ pc = "final_decision"
    /\ \E q \in QueueStates, out \in MarketOutcomes,
          response \in ModelOutcomes(DecisionTexts, {}) :
         LET got == get_market_data_once(market_data, q, out, Len(fetches))
             timestamp == now
             resp == response.content
         IN /\ fetches' = fetches \o got.calls
            /\ market_data' = got.value
            /\ IF got.value.tag # "snapshot"
               THEN
                    /\ StageRaises
                    /\ UNCHANGED <<results, journal, prompts>>
               ELSE /\ prompts' = Append(prompts,
                           [node |-> "final_decision",
                            data |-> <<IF Has(results, "news_analysis")
                                       THEN results["news_analysis"].analysis ELSE "",
                                       IF Has(results, "price_analysis")
                                       THEN results["price_analysis"].analysis ELSE "",
                                       got.value.closing_price>>,
                            answer |-> response.tag])
                    /\ IF response.tag = "raise"
                       THEN
                            /\ StageRaises
                            /\ UNCHANGED <<results, journal>>
                       ELSE /\ results' = Put(results, "final_decision",
                                              [decision |-> resp, timestamp |-> timestamp])
                            /\ journal' = Append(journal, [save |-> "final_decision",
                                                           timestamp |-> timestamp,
                                                           current_price |-> got.value.closing_price,
                                                           analysis_text |-> resp])
                            /\ pc' = NextNode("final_decision")
                            /\ UNCHANGED schedPc
    /\ UNCHANGED <<cycle, now, newsReads, trades, gate>>

\* final_decision_agent, lines 215-270
final_decision_agent ==
    /\ schedPc = "pipeline"
    /\ pc = "final_decision"
    /\ \E q \in QueueStates, out \in MarketOutcomes,
          response \in ModelOutcomes(DecisionTexts, {}) :
         LET got == get_market_data_once(market_data, q, out, Len(fetches))
             timestamp == now
             resp == response.content
         IN /\ fetches' = fetches \o got.calls
            /\ market_data' = got.value
            /\ IF \/ got.value.tag # "snapshot"
                  \/ ~Has(results, "news_analysis")
                  \/ ~Has(results, "price_analysis")
               THEN \* line 229 (TypeError) or lines 236, 239 (KeyError)
                    /\ StageRaises
                    /\ UNCHANGED <<results, journal, prompts>>
               ELSE /\ prompts' = Append(prompts,
                           [node |-> "final_decision",
                            data |-> <<results["news_analysis"].analysis,
                                       results["price_analysis"].analysis,
                                       got.value.closing_price>>,
                            answer |-> response.tag])
                    /\ IF response.tag = "raise"
                       THEN \* llm.invoke raised
                            /\ StageRaises
                            /\ UNCHANGED <<results, journal>>
                       ELSE /\ results' = Put(results, "final_decision",
                                              [decision |-> resp, timestamp |-> timestamp])
                            /\ journal' = Append(journal, [save |-> "final_decision",
                                                           timestamp |-> timestamp,
                                                           current_price |-> got.value.closing_price,
                                                           analysis_text |-> resp])
                            /\ pc' = NextNode("final_decision")
                            /\ UNCHANGED schedPc
    /\ UNCHANGED <<cycle, now, newsReads, trades, gate>>


(* ------------------------------ trade gate ----------------------------- *)
\* mutant: the hold keyword counts only when the buy keyword is absent
IsHoldOnlyDecision(decision_text) ==
    Contains(decision_text, HoldKeyword) /\ ~Contains(decision_text, BuyKeyword)

\* line 286: if "gwanmang" in decision_text
IsHoldDecision(decision_text) == Contains(decision_text, HoldKeyword)

\* line 302: if "maesu" in decision_text
IsBuyDecision(decision_text) == Contains(decision_text, BuyKeyword)

\* line 307: float(balance_info.get('available_krw', 0))
AvailableKrw(bal) == IF bal.tag = "ok" THEN bal.krw ELSE 0

\* mutant: the threshold itself is refused too
BalanceTooLowInclusive(available_krw) == available_krw <= MIN_KRW

\* line 310: if available_krw < 10000
BalanceTooLow(available_krw) == available_krw < MIN_KRW

\* trade_executor is assigned in the function (lines 305, 332), so it is a local
\* name throughout; it is bound only once line 305 has run, on the buy path
ExecutorBound(decision_text) == IsBuyDecision(decision_text)

\* mutant: every returned result is recorded
ShouldRecordAlways(result) == TRUE

\* line 349: if result['status'] == 'SUCCESS'
ShouldRecord(result) == result.status = "SUCCESS"

\* lines 290-298: the record of a hold decision
HoldRecord(timestamp, current_price) ==
    [timestamp |-> timestamp, trade_type |-> "HOLD", quantity |-> 0,
     price |-> current_price, total_amount |-> 0,
     order_id |-> <<"HOLD", StrfSeconds(timestamp)>>]

\* lines 314-322: the record of a buy blocked by the balance
CantBuyRecord(timestamp, current_price) ==
    [timestamp |-> timestamp, trade_type |-> "CANT_BUY", quantity |-> 0,
     price |-> current_price, total_amount |-> 0,
     order_id |-> <<"BUY_CANT", StrfSeconds(timestamp)>>]

\* mutant: the record gets an id of the gate's own making, as the HOLD and
\* CANT_BUY records do, instead of the id of the result
TradeRecordOwnId(timestamp, result) ==
    [timestamp |-> timestamp, trade_type |-> result.type, quantity |-> result.quantity,
     price |-> result.price, total_amount |-> result.total_amount,
     order_id |-> <<result.type, StrfSeconds(timestamp)>>]

\* lines 350-357: the record of an executed trade
TradeRecord(timestamp, result) ==
    [timestamp |-> timestamp, trade_type |-> result.type, quantity |-> result.quantity,
     price |-> result.price, total_amount |-> result.total_amount,
     order_id |-> result.order_id]

\* mutant: a failed order is recorded before the exception is swallowed
ExecuteRaisedRecorded(called) ==
    [called EXCEPT !.error = "execute_trade",
                   !.saves = Append(@, [timestamp |-> 0, trade_type |-> "FAILED",
                                        quantity |-> 0, price |-> 0, total_amount |-> 0,
                                        order_id |-> <<"FAILED", 0>>])]

\* lines 358-359: an exception of execute_trade is printed and swallowed;
\* called is the gate's trace with the call made
ExecuteRaised(called) == [called EXCEPT !.error = "execute_trade"]

\* lines 329-357: executor check, execute_trade, and the save on SUCCESS.
\* g is the gate's trace so far.
ExecuteTrade(g, final_decision, current_price, timestamp, ex) ==
    IF ~ExecutorBound(Lower(final_decision.decision))
    THEN \* line 331 reads the unbound local: UnboundLocalError is not a
         \* ValueError, so it reaches the except of line 358
         [g EXCEPT !.error = "UnboundLocalError"]
    ELSE LET called == [g EXCEPT !.executes = Append(@,
                             [decision |-> final_decision,
                              max_investment |-> INVESTMENT,
                              current_price |-> current_price]),
                                 !.outcomes = Append(@, ex)]
         IN IF ex.tag = "raise"
            THEN ExecuteRaised(called)
            ELSE IF ShouldRecord(ex)
                 THEN [called EXCEPT !.saves = Append(@, TradeRecord(timestamp, ex))]
                 ELSE called

\* mutant: the return of line 323 is missing and the order is placed anyway
BlockedBuyFallsThrough(asked, final_decision, current_price, timestamp, ex) ==
    ExecuteTrade([asked EXCEPT !.saves = <<CantBuyRecord(timestamp, current_price)>>],
                 final_decision, current_price, timestamp, ex)

\* lines 311-323: a buy blocked by the balance is recorded and the gate returns
BlockedBuy(asked, final_decision, current_price, timestamp, ex) ==
    [asked EXCEPT !.saves = <<CantBuyRecord(timestamp, current_price)>>]

\* mutant: a failed balance query is ignored and the order is placed
BalanceQueryFailOpen(asked, final_decision, current_price, timestamp, ex) ==
    ExecuteTrade(asked, final_decision, current_price, timestamp, ex)

\* lines 325-327: a failure of the balance query is printed and the gate returns
BalanceQueryFailed(asked, final_decision, current_price, timestamp, ex) ==
    [asked EXCEPT !.error = "get_balance"]

\* execute_trading_decision, lines 272-359, as the trace of what it did:
\* balance queries, execute_trade calls and their outcomes, save_trade_execution
\* records, and the exception it swallowed.
execute_trading_decision(res, md, timestamp, bal, ex) ==
    LET g == [GateIdle EXCEPT !.entered = 1]
    IN IF ~Has(res, "final_decision")
       THEN g
       ELSE IF md.tag # "snapshot"
       THEN [g EXCEPT !.error = "TypeError"]
       ELSE LET final_decision == res["final_decision"]
                current_price == md.closing_price
                decision_text == Lower(final_decision.decision)
            IN IF IsHoldDecision(decision_text)
               THEN [g EXCEPT !.saves = <<HoldRecord(timestamp, current_price)>>]
               ELSE IF IsBuyDecision(decision_text)
               THEN LET asked == [g EXCEPT !.balance = <<bal>>]
                    IN IF bal.tag = "raise"
                       THEN BalanceQueryFailed(asked, final_decision, current_price, timestamp, ex)
                       ELSE IF BalanceTooLow(AvailableKrw(bal))
                       THEN BlockedBuy(asked, final_decision, current_price, timestamp, ex)
                       ELSE ExecuteTrade(asked, final_decision, current_price, timestamp, ex)
               ELSE ExecuteTrade(g, final_decision, current_price, timestamp, ex)

\* mutant: an exception inside the gate reaches the scheduler's except branch
AfterGateReraised(g) == IF g.error # "none" THEN "sleep_retry" ELSE "sleep"

\* lines 358-359, 414 and 443-448: whatever happened inside the gate, it
\* returns, run_trading_analysis returns, and the scheduler sleeps at line 448
AfterGate(g) == "sleep"

\* run_trading_analysis after app.invoke, lines 399-416: the gate runs when
\* the result holds a final decision; the run then returns to the scheduler,
\* which sleeps (lines 443-448)
TradeGate ==
    /\ schedPc = "pipeline"
    /\ pc = "END"
    /\ \E bal \in BalanceOutcomes,
          ex \in ExecOutcomes(IF market_data.tag = "snapshot"
                              THEN market_data.closing_price ELSE 0) :
         LET g == IF Has(results, "final_decision")
                  THEN execute_trading_decision(results, market_data, now, bal, ex)
                  ELSE GateIdle
         IN /\ gate' = g
            /\ trades' = trades \o g.saves
            /\ schedPc' = AfterGate(g)
    /\ pc' = "idle"
    /\ UNCHANGED <<cycle, now, results, market_data, prompts, fetches, newsReads, journal>>

(* --------------------------- specification ----------------------------- *)
Next ==
    \/ StartCycle
    \/ news_analysis_agent
    \/ price_analysis_agent
    \/ final_decision_agent
    \/ TradeGate
    \/ SleepDone
    \/ RetrySleepDone
    \/ KeyboardInterrupt
    \/ KeyboardInterruptInRetry

Spec == Init /\ [][Next]_vars

\* Every call returns or raises and time.sleep ends; only the interrupt is
\* left to the environment.
Progress ==
    \/ StartCycle
    \/ news_analysis_agent
    \/ price_analysis_agent
    \/ final_decision_agent
    \/ TradeGate
    \/ SleepDone
    \/ RetrySleepDone

FairSpec == Spec /\ WF_vars(Progress)

\* final_decision_agent called on a context of any shape: results holds any
\* subset of the two prior analyses (the node called directly, lines 215-216)
ReconcileInit ==
    /\ schedPc = "pipeline"
    /\ cycle = 1
    /\ now = 0
    /\ pc = "final_decision"
    /\ results \in {[k \in D |-> [analysis |-> IF k = "news_analysis" THEN "news_view"
                                                ELSE "price_view",
                                   timestamp |-> 0]] :
                        D \in SUBSET {"news_analysis", "price_analysis"}}
    /\ market_data = EmptyDict
    /\ prompts = <<>>
    /\ fetches = <<>>
    /\ newsReads = <<>>
    /\ journal = <<>>
    /\ trades = <<>>
    /\ gate = GateIdle

ReconcileSpec == ReconcileInit /\ [][Next]_vars


(* ------------------------------- claims -------------------------------- *)
\* the save_* call of stage k was made with the record results[k] holds
Persisted(k) ==
    \E i \in 1..Len(journal) :
        /\ journal[i].save = k
        /\ journal[i].timestamp = results[k].timestamp
        /\ journal[i].analysis_text =
              (IF k = "final_decision" THEN results[k].decision ELSE results[k].analysis)

StageOrder == <<"news_analysis", "price_analysis", "final_decision">>
IsPrefix(s, t) == Len(s) <= Len(t) /\ \A i \in 1..Len(s) : s[i] = t[i]

\* C1: the stages run in the order news analysis, price analysis,
\* reconciliation: when the price stage is about to begin the news record is
\* in results and persisted, when reconciliation is about to begin the price
\* record is too, and results never holds final_decision without
\* price_analysis, nor price_analysis without news_analysis.
C1_StageOrder ==
    /\ Has(results, "final_decision") =>
          Has(results, "price_analysis") /\ Persisted("final_decision")
    /\ Has(results, "price_analysis") =>
          Has(results, "news_analysis") /\ Persisted("price_analysis")
    /\ Has(results, "news_analysis") => Persisted("news_analysis")
    /\ pc = "price_analysis" => Has(results, "news_analysis")
    /\ pc = "final_decision" => Has(results, "price_analysis")
    /\ pc = "END" => Has(results, "final_decision")
    /\ IsPrefix([i \in 1..Len(journal) |-> journal[i].save], StageOrder)
    /\ IsPrefix([i \in 1..Len(prompts) |-> prompts[i].node], StageOrder)

\* a run that went through all three stages
C1_Witness ==
    /\ pc = "END"
    /\ Has(results, "final_decision")
    /\ Len(journal) = 3

\* C2 as stated: the market provider is invoked at most once per run, and a
\* snapshot held in state['market_data'] is the one fetched first.
C2_FetchedOnce ==
    /\ Len(fetches) <= 1
    /\ market_data.tag = "snapshot" => market_data.fetch = 1

\* C2 amended: each stage that needs the snapshot asks the provider once: none
\* before the price stage, one call by the price stage, a second by
\* reconciliation, so a run holding a final decision made exactly two calls and
\* its state['market_data'] is the second snapshot.
C2_FetchedPerStage ==
    /\ pc \in {"news_analysis", "price_analysis"} => Len(fetches) = 0
    /\ pc = "final_decision" => Len(fetches) = 1 /\ market_data.fetch = 1
    /\ Has(results, "final_decision") =>
          /\ Len(fetches) = 2
          /\ market_data.tag = "snapshot"
          /\ market_data.fetch = 2
    /\ Len(fetches) <= 2

\* reconciliation replaced the price stage's snapshot by one with another price
C2_Witness ==
    /\ pc = "END"
    /\ Len(fetches) = 2
    /\ market_data.fetch = 2
    /\ journal[2].current_price # market_data.closing_price


\* the gate ran in the current run, on the decision text of results
GateRan == gate.entered = 1 /\ Has(results, "final_decision")
DecisionText == results["final_decision"].decision
\* the records the gate saved are the newest records of the store
SavesPersisted ==
    /\ Len(gate.saves) <= Len(trades)
    /\ \A i \in 1..Len(gate.saves) :
          trades[Len(trades) - Len(gate.saves) + i] = gate.saves[i]
\* the balance the gate was told, with the default of line 307
ToldKrw == IF gate.balance[1].tag = "ok" THEN gate.balance[1].krw ELSE 0

\* C3 as stated: a run whose gate ran persisted exactly one Decision Record.
C3_ExactlyOneRecord == GateRan => Len(gate.saves) = 1

\* C3 amended: a run whose gate ran persisted at most one Decision Record:
\* exactly one when the text holds the hold keyword, when it holds the buy
\* keyword and the balance told is below 10,000, or when execute_trade
\* returned a result of status SUCCESS; none otherwise.
C3_AtMostOneRecord ==
    GateRan =>
        /\ Len(gate.saves) <= 1
        /\ SavesPersisted
        /\ (Len(gate.saves) = 1) <=>
              \/ HoldKeyword \in DecisionText
              \/ /\ BuyKeyword \in DecisionText
                 /\ gate.balance # <<>>
                 /\ gate.balance[1].tag # "raise"
                 /\ ToldKrw < 10000
              \/ /\ gate.outcomes # <<>>
                 /\ gate.outcomes[1].tag = "result"
                 /\ gate.outcomes[1].status = "SUCCESS"

\* a run that recorded the trade the exchange reported
C3_Witness ==
    /\ GateRan
    /\ gate.outcomes # <<>>
    /\ gate.outcomes[1].tag = "result"
    /\ gate.outcomes[1].status = "SUCCESS"
    /\ Len(gate.saves) = 1
    /\ gate.saves[1].trade_type = "BUY"

\* C4: a run in which a stage fails saves no Decision Record and places no
\* order: the code after app.invoke is reached only with a final decision in
\* results, the gate is entered at most once per run and only then, and the
\* store of Decision Records changes only in the step of the gate.
C4_NoGateWithoutDecision ==
    /\ [](/\ gate.entered <= 1
          /\ gate.entered = 1 => Has(results, "final_decision")
          /\ pc = "END" => Has(results, "final_decision")
          /\ ~Has(results, "final_decision") => gate = GateIdle
          /\ schedPc \in {"sleep_retry", "killed"} =>
                ~Has(results, "final_decision") /\ gate = GateIdle)
    /\ [][trades' # trades =>
             /\ pc = "END"
             /\ Has(results, "final_decision")
             /\ gate.entered = 0
             /\ gate'.entered = 1]_vars

\* the second cycle failed in reconciliation, after a first one that recorded
C4_Witness ==
    /\ schedPc = "sleep_retry"
    /\ Has(results, "price_analysis")
    /\ Len(fetches) = 2
    /\ gate = GateIdle
    /\ Len(trades) = 1

\* C5: a decision text with the hold keyword, whatever else it holds, makes
\* the gate save one HOLD record of quantity 0 and total_amount 0, without a
\* balance query and without a call of execute_trade.
C5_HoldWins ==
    (GateRan /\ HoldKeyword \in DecisionText) =>
        /\ Len(gate.saves) = 1
        /\ gate.saves[1].trade_type = "HOLD"
        /\ gate.saves[1].quantity = 0
        /\ gate.saves[1].total_amount = 0
        /\ gate.balance = <<>>
        /\ gate.executes = <<>>
        /\ SavesPersisted

\* the text held the hold and the buy keyword
C5_Witness ==
    /\ GateRan
    /\ {HoldKeyword, BuyKeyword} \subseteq DecisionText
    /\ Len(gate.saves) = 1
    /\ gate.saves[1].trade_type = "HOLD"

\* C6: on a text with the buy keyword and without the hold keyword the
\* balance is queried once; a balance below 10,000 makes the gate save one
\* CANT_BUY record of quantity 0 and total_amount 0 and not call
\* execute_trade; a balance of 10,000 or more makes it call execute_trade.
C6_BuyThreshold ==
    (GateRan /\ BuyKeyword \in DecisionText /\ HoldKeyword \notin DecisionText) =>
        /\ Len(gate.balance) = 1
        /\ gate.balance[1].tag # "raise" =>
              IF ToldKrw < 10000
              THEN /\ Len(gate.saves) = 1
                   /\ gate.saves[1].trade_type = "CANT_BUY"
                   /\ gate.saves[1].quantity = 0
                   /\ gate.saves[1].total_amount = 0
                   /\ gate.executes = <<>>
                   /\ SavesPersisted
              ELSE Len(gate.executes) = 1

\* a buy at exactly 10,000 reached execute_trade, after a cycle whose buy
\* at 9,999 was recorded as CANT_BUY
C6_Witness ==
    /\ GateRan
    /\ BuyKeyword \in DecisionText
    /\ gate.balance = <<[tag |-> "ok", krw |-> 10000]>>
    /\ Len(gate.executes) = 1
    /\ Len(trades) >= 1
    /\ trades[1].trade_type = "CANT_BUY"

\* C7: a decision text with neither the hold nor the buy keyword makes the
\* gate call execute_trade, with the decision, the investment cap and the
\* current price, without a balance query.
C7_SellExecutes ==
    (GateRan /\ BuyKeyword \notin DecisionText /\ HoldKeyword \notin DecisionText) =>
        /\ gate.balance = <<>>
        /\ gate.executes = <<[decision |-> results["final_decision"],
                              max_investment |-> INVESTMENT,
                              current_price |-> market_data.closing_price]>>

\* C8: a run saves at most one Decision Record, never calls execute_trade
\* when it saved a HOLD or CANT_BUY record, and calls execute_trade only on a
\* text without the hold keyword and, on a text with the buy keyword, only
\* after a balance of 10,000 or more was told.
C8_NoRecordAndTrade ==
    /\ Len(gate.saves) <= 1
    /\ Len(gate.executes) <= 1
    /\ (\E i \in 1..Len(gate.saves) : gate.saves[i].trade_type \in {"HOLD", "CANT_BUY"})
          => gate.executes = <<>>
    /\ gate.executes # <<>> =>
          /\ GateRan
          /\ HoldKeyword \notin DecisionText
          /\ BuyKeyword \in DecisionText =>
                /\ Len(gate.balance) = 1
                /\ gate.balance[1].tag = "ok"
                /\ gate.balance[1].krw >= 10000

\* a blocked buy: the record is saved and the exchange is not called
C8_Witness ==
    /\ GateRan
    /\ gate.balance = <<[tag |-> "ok", krw |-> 9999]>>
    /\ Len(gate.saves) = 1
    /\ gate.saves[1].trade_type = "CANT_BUY"
    /\ gate.executes = <<>>

\* C9: when the balance query raises, execute_trade is not called in the run
\* and no Decision Record is saved.
C9_BalanceFailClosed ==
    (gate.balance # <<>> /\ gate.balance[1].tag = "raise") =>
        /\ gate.executes = <<>>
        /\ gate.saves = <<>>

\* the balance query raised on the buy path and the run returned
C9_Witness ==
    /\ GateRan
    /\ BuyKeyword \in DecisionText
    /\ gate.balance # <<>>
    /\ gate.balance[1].tag = "raise"
    /\ gate.error = "get_balance"
    /\ schedPc = "sleep"

\* execute_trade raised in the current run
ExecuteHasRaised == gate.outcomes # <<>> /\ gate.outcomes[1].tag = "raise"

\* C10: when execute_trade raises, the run saves no Decision Record and
\* calls execute_trade once only, the scheduler is on its normal path (the
\* sleep of line 448, the loop head, or stopped by an interrupt), and unless
\* interrupted it starts the next cycle.
C10_ExecuteRaiseIsolated ==
    /\ [](ExecuteHasRaised =>
             /\ gate.saves = <<>>
             /\ Len(gate.executes) = 1
             /\ schedPc \in {"sleep", "loop", "exited"})
    /\ \A n \in 1..(MaxCycles - 1) :
          (ExecuteHasRaised /\ cycle = n) ~> (cycle = n + 1 \/ schedPc = "exited")

\* after the raise the scheduler has slept and is about to start a cycle
C10_Witness ==
    /\ ExecuteHasRaised
    /\ gate.error = "execute_trade"
    /\ schedPc = "loop"
    /\ cycle < MaxCycles

\* C11 as stated: a failure of execute_trade, or of the balance query inside
\* the gate, is handled by the scheduler's except branch: the sleep that
\* follows it is the one of line 456.
C11_GateFailureIsCycleFailure ==
    (gate.error \in {"execute_trade", "get_balance"} /\ schedPc \in {"sleep", "sleep_retry"})
        => schedPc = "sleep_retry"

\* C11 amended: a failure inside the gate (of execute_trade, of the balance
\* query, or any other) is caught inside execute_trading_decision: the run
\* returns normally and the scheduler takes the normal-completion path, the
\* sleep of line 448, never the except branch.
C11_GateFailureSwallowed ==
    /\ [](gate.error # "none" =>
             /\ gate.entered = 1
             /\ schedPc \in {"sleep", "loop", "exited"})
    /\ [][(gate.error = "none" /\ gate'.error # "none") => schedPc' = "sleep"]_vars

\* execute_trade raised and the scheduler sleeps on the normal path
C11_Witness ==
    /\ gate.error = "execute_trade"
    /\ schedPc = "sleep"

\* C12: final_decision_agent run on results without news_analysis or without
\* price_analysis fails: the exception goes to the scheduler, llm.invoke is
\* not called, results is not written and save_final_decision is not called.
C12_ReconcileNeedsBoth ==
    [][(/\ pc = "final_decision"
        /\ fetches' # fetches
        /\ ~Has(results, "news_analysis") \/ ~Has(results, "price_analysis"))
       => /\ prompts' = prompts
          /\ results' = results
          /\ journal' = journal
          /\ pc' = "idle"
          /\ schedPc' = "sleep_retry"]_vars

\* reconciliation got its snapshot and failed on the missing price analysis
C12_Witness ==
    /\ schedPc = "sleep_retry"
    /\ Has(results, "news_analysis")
    /\ ~Has(results, "price_analysis")
    /\ market_data.tag = "snapshot"
    /\ prompts = <<>>
    /\ journal = <<>>

\* a step that is the delivery of an interrupt: the scheduler stops and
\* nothing of the run changes
InterruptStep ==
    /\ schedPc' \in {"exited", "killed"}
    /\ UNCHANGED <<cycle, now, results, market_data, prompts, fetches, newsReads,
                   journal, trades, gate>>

\* C13: every cycle, ended normally or by an exception, is followed by one
\* sleep of the same 1200 seconds and then by the next cycle; a cycle starts
\* only from the loop head with no run in progress, a run is in progress only
\* inside its cycle, and the scheduler stops only by an interrupt.
C13_CyclesIsolated ==
    /\ [](pc # "idle" => schedPc = "pipeline")
    /\ [][(schedPc = "pipeline" /\ schedPc' # "pipeline")
             => schedPc' \in {"sleep", "sleep_retry", "exited"}]_vars
    /\ [][(schedPc \in {"sleep", "sleep_retry"} /\ schedPc' # schedPc /\ ~InterruptStep)
             => /\ schedPc' = "loop"
                /\ now' = now + 1200 * TicksPerSecond
                /\ cycle' = cycle]_vars
    /\ [][cycle' # cycle
             => /\ schedPc = "loop"
                /\ pc = "idle"
                /\ cycle' = cycle + 1
                /\ schedPc' = "pipeline"]_vars
    /\ [][(schedPc' \in {"exited", "killed"} /\ schedPc' # schedPc) => InterruptStep]_vars
    /\ [][(schedPc \in {"exited", "killed"}) => (vars' = vars)]_vars
    /\ \A n \in 1..(MaxCycles - 1) :
          (cycle = n /\ schedPc \in {"sleep", "sleep_retry"})
             ~> (cycle = n + 1 \/ schedPc \in {"exited", "killed"})

\* the first cycle failed in its news stage, the scheduler slept one
\* interval and is at the loop head again
C13_Witness ==
    /\ schedPc = "loop"
    /\ cycle = 1
    /\ ~Has(results, "news_analysis")
    /\ Len(prompts) = 1
    /\ now = WAIT_SECONDS * TicksPerSecond

\* the stage that was running when the market snapshot came back as None
MarketFailedStage ==
    IF Has(results, "price_analysis") THEN "final_decision" ELSE "price_analysis"

NoTraceOf(node) ==
    /\ ~Has(results, node)
    /\ \A i \in 1..Len(prompts) : prompts[i].node # node
    /\ \A i \in 1..Len(journal) : journal[i].save # node

NewsPrompts == {i \in 1..Len(prompts) : prompts[i].node = "news_analysis"}

\* C15: a news stage whose read-back is empty calls the model once with the
\* 'no recent news' text as its news input and, when the model answers, writes
\* and persists results['news_analysis'] and hands over to price analysis.
C15_EmptyNewsPassThrough ==
    /\ [][(/\ pc = "news_analysis"
            /\ newsReads' # newsReads
            /\ newsReads'[Len(newsReads')].rows = "empty")
           => /\ Len(prompts') = Len(prompts) + 1
              /\ prompts'[Len(prompts')].node = "news_analysis"
              /\ prompts'[Len(prompts')].data = "no_recent_news"
              /\ prompts'[Len(prompts')].answer = "ok"
                    => /\ Has(results', "news_analysis")
                       /\ ~Has(results, "news_analysis")
                       /\ Persisted("news_analysis")'
                       /\ pc' = "price_analysis"
                       /\ schedPc' = "pipeline"]_vars
    /\ [](Cardinality(NewsPrompts) <= 1)

\* the read-back was empty, the model was asked about 'no recent news', and
\* the run is at the price analysis stage with the news analysis persisted
C15_Witness ==
    /\ Len(newsReads) = 1
    /\ newsReads[1].rows = "empty"
    /\ prompts = <<[node |-> "news_analysis", data |-> "no_recent_news", answer |-> "ok"]>>
    /\ Persisted("news_analysis")
    /\ pc = "price_analysis"

\* C16: an interrupt delivered during a sleep, after a completed cycle or after
\* a failed one, is caught by the scheduler and ends the loop through the break
\* of lines 450-452: a stopped scheduler has always stopped that way.
C16_InterruptInSleepCaught ==
    schedPc \in {"exited", "killed"} => schedPc = "exited"

GateMadeKinds == {"HOLD", "CANT_BUY"}

\* C17: over all cycles of the scheduler, no two persisted HOLD or CANT_BUY
\* records, whose ids are the kind prefix plus the timestamp in seconds, carry
\* the same order_id.
C17_OrderIdsDistinct ==
    \A i, j \in 1..Len(trades) :
        (/\ i # j
         /\ trades[i].trade_type \in GateMadeKinds
         /\ trades[j].trade_type \in GateMadeKinds)
           => trades[i].order_id # trades[j].order_id

\* two cycles each persisted a HOLD record
C17_Witness ==
    /\ Len(trades) = 2
    /\ trades[1].trade_type = "HOLD"
    /\ trades[2].trade_type = "HOLD"
    /\ trades[2].timestamp = trades[1].timestamp + WAIT_SECONDS * TicksPerSecond

ResultKeys == {"news_analysis", "price_analysis", "final_decision"}

\* C18: within a run every change of results adds exactly one key, the key of
\* the stage that is running, which was not there before, and leaves every
\* earlier entry as it was; a run that reaches the end holds the three keys.
C18_ResultsWriteOnce ==
    /\ [][(cycle' = cycle /\ results' # results)
           => /\ pc \in ResultKeys
              /\ ~Has(results, pc)
              /\ DOMAIN results' = DOMAIN results \cup {pc}
              /\ \A k \in DOMAIN results : results'[k] = results[k]]_vars
    /\ [](DOMAIN results \subseteq ResultKeys)
    /\ [](pc = "END" => DOMAIN results = ResultKeys)

\* a run completed with the three entries, each persisted as it was written
C18_Witness ==
    /\ schedPc = "sleep"
    /\ DOMAIN results = ResultKeys
    /\ gate.entered = 1
    /\ \A k \in ResultKeys : Persisted(k)

ExecuteReturned == gate.outcomes # <<>> /\ gate.outcomes[1].tag = "result"

\* C19: when execute_trade returns a result, the gate persists a record exactly
\* when the status is SUCCESS, with the type, quantity, price, total_amount and
\* order_id of the result; with any other status nothing is persisted and the
\* run returns normally.
C19_RecordIffSuccess ==
    ExecuteReturned =>
        LET result == gate.outcomes[1]
        IN /\ Len(gate.outcomes) = 1
           /\ gate.error = "none"
           /\ schedPc \in {"sleep", "loop", "exited"}
           /\ result.status = "SUCCESS"
                 => /\ Len(gate.saves) = 1
                    /\ gate.saves[1].trade_type = result.type
                    /\ gate.saves[1].quantity = result.quantity
                    /\ gate.saves[1].price = result.price
                    /\ gate.saves[1].total_amount = result.total_amount
                    /\ gate.saves[1].order_id = result.order_id
                    /\ SavesPersisted
           /\ result.status # "SUCCESS"
                 => /\ gate.saves = <<>>
                    /\ SavesPersisted

\* execute_trade returned a FAILED result: nothing was saved and the scheduler
\* sleeps on its normal path
C19_Witness ==
    /\ ExecuteReturned
    /\ gate.outcomes[1].status = "FAILED"
    /\ gate.saves = <<>>
    /\ gate.error = "none"
    /\ schedPc = "sleep"

====
